---- MODULE Spec2Model ----
(***************************************************************************)
(* SolveSquare (src/main.c): main reads the coefficients A, B, C with      *)
(* input(), calls solve_square and prints the classification.              *)
(*                                                                         *)
(* Numbers.  A double is modelled as an exact rational <<n, d>> in lowest  *)
(* terms with d > 0, or as NaN (<<0, 0>>).  +, -, *, / are exact on the    *)
(* values the model draws; sqrt rounds down to a binary grid fine enough    *)
(* that a rounded root differs from the exact one by less than the code's  *)
(* tolerance.  DBL_EPSILON is                                              *)
(* 2^-(DBL_MANT_DIG - 1) as in <float.h>; the mantissa width DBL_MANT_DIG  *)
(* (53 for an IEEE double) is a bound of the model, and the coefficients   *)
(* the model draws are placed relative to DBL_EPSILON, below it, on it and *)
(* above it.  Magnitudes stay far from DBL_MAX, so no operation overflows  *)
(* to an infinity.                                                         *)
(*                                                                         *)
(* Line 142 of src/main.c carries one closing parenthesis too many; the    *)
(* condition is modelled as (d < 0) && (fabs(d) > DBL_EPSILON).            *)
(***************************************************************************)
EXTENDS Integers, Sequences, FiniteSets

VARIABLES
    pc,         \* position of main / of the function harness
    name,       \* coefficient input() is reading: "A", "B" or "C"
    tries,      \* input(): local tries
    result,     \* input(): local result (scanf's return value)
    prompts,    \* prompts printed by the running input() call
    wrote,      \* scanf stored a number in *value during the running call
    said_last,  \* " That was last try :(" printed by the running call
    calls,      \* finished input() calls: name, return value, whether *value was stored
    parsed,     \* names of the coefficients stored from parsed numbers, in order
    asked,      \* names of the coefficients prompted for
    a, b, c,    \* main's coefficients
    x1, x2,     \* main's roots
    roots_num,  \* main's roots_num
    out,        \* the result message main printed, "" before
    k,          \* scale factor of the function harness
    scaled      \* solve_square's result on (k*a, k*b, k*c) in the harness

vars == <<pc, name, tries, result, prompts, wrote, said_last, calls,
          parsed, asked, a, b, c, x1, x2, roots_num, out, k, scaled>>

----------------------------------------------------------------------------
(* Bounds of the model *)

DBL_MANT_DIG == 5
SqrtBits == 2
MaxPrompts == 5

(* Program constants *)

ERR_INPUT_TRIES == 3
INFINITE_ROOTS == -1
TRASH_SIZE == 256
EOF == -1

----------------------------------------------------------------------------
(* double arithmetic *)

Abs(i) == IF i < 0 THEN -i ELSE i

RECURSIVE Gcd(_, _)
Gcd(m, n) == IF n = 0 THEN m ELSE Gcd(n, m % n)

RECURSIVE Pow2(_)
Pow2(n) == IF n = 0 THEN 1 ELSE 2 * Pow2(n - 1)

RECURSIVE Isqrt(_)
Isqrt(m) ==
    IF m < 2 THEN m
    ELSE LET s == 2 * Isqrt(m \div 4)
         IN  IF (s + 1) * (s + 1) <= m THEN s + 1 ELSE s

NaN == <<0, 0>>

IsNaN(x) == x[2] = 0

Rat(n, d) ==
    LET g == Gcd(Abs(n), Abs(d))
    IN  IF d < 0 THEN <<(-n) \div g, (-d) \div g>> ELSE <<n \div g, d \div g>>

Num(i) == <<i, 1>>

Neg(x) == IF IsNaN(x) THEN NaN ELSE <<-x[1], x[2]>>

Add(x, y) ==
    IF IsNaN(x) \/ IsNaN(y) THEN NaN
    ELSE LET g == Gcd(x[2], y[2])
         IN  Rat(x[1] * (y[2] \div g) + y[1] * (x[2] \div g), x[2] * (y[2] \div g))

Sub(x, y) == Add(x, Neg(y))

Mul(x, y) ==
    IF IsNaN(x) \/ IsNaN(y) THEN NaN ELSE Rat(x[1] * y[1], x[2] * y[2])

\* The code divides only by 2*a with fabs(a) >= DBL_EPSILON and by b with
\* fabs(b) >= DBL_EPSILON; a zero divisor is met only behind a NaN.
Div(x, y) ==
    IF IsNaN(x) \/ IsNaN(y) \/ y[1] = 0 THEN NaN
    ELSE Rat(x[1] * y[2], x[2] * y[1])

\* Comparisons with a NaN operand are false.
Lt(x, y) ==
    /\ ~IsNaN(x)
    /\ ~IsNaN(y)
    /\ LET g == Gcd(x[2], y[2]) IN x[1] * (y[2] \div g) < y[1] * (x[2] \div g)

Gt(x, y) == Lt(y, x)

Le(x, y) ==
    /\ ~IsNaN(x)
    /\ ~IsNaN(y)
    /\ LET g == Gcd(x[2], y[2]) IN x[1] * (y[2] \div g) <= y[1] * (x[2] \div g)

fabs(x) == IF IsNaN(x) THEN NaN ELSE <<Abs(x[1]), x[2]>>

IsSquare(m) == Isqrt(m) * Isqrt(m) = m

\* The grid sqrt rounds to: SqrtBits binary places below DBL_EPSILON squared.
SqrtGridBits == 2 * (DBL_MANT_DIG - 1) + SqrtBits

\* floor(x * 2^bits) for x >= 0
Scaled(x, bits) ==
    LET g == Gcd(Pow2(bits), x[2])
    IN  (x[1] * (Pow2(bits) \div g)) \div (x[2] \div g)

\* sqrt of a negative number is NaN; an exact root is returned exactly, any
\* other is rounded down to a multiple of 2^-SqrtGridBits.
sqrt(x) ==
    IF IsNaN(x) \/ x[1] < 0 THEN NaN
    ELSE IF IsSquare(x[1]) /\ IsSquare(x[2]) THEN Rat(Isqrt(x[1]), Isqrt(x[2]))
    ELSE Rat(Isqrt(Scaled(x, 2 * SqrtGridBits)), Pow2(SqrtGridBits))

DBL_EPSILON == Rat(1, Pow2(DBL_MANT_DIG - 1))

----------------------------------------------------------------------------
(* solve_linear and solve_square; the result carries the return value and   *)
(* the contents of the output locations after the call                      *)

\* solve_linear with the sign of the root lost: *x = c / b
solve_linear_sign_lost(cb, cc, x) ==
    IF Lt(fabs(cb), DBL_EPSILON)
    THEN IF Lt(fabs(cc), DBL_EPSILON)
         THEN [ret |-> INFINITE_ROOTS, x |-> x]
         ELSE [ret |-> 0, x |-> x]
    ELSE [ret |-> 1, x |-> Div(cc, cb)]

\* solve_linear returning the wrong constant for 0 = 0: ERR_INPUT_TRIES
solve_linear_wrong_constant(cb, cc, x) ==
    IF Lt(fabs(cb), DBL_EPSILON)
    THEN IF Lt(fabs(cc), DBL_EPSILON)
         THEN [ret |-> ERR_INPUT_TRIES, x |-> x]
         ELSE [ret |-> 0, x |-> x]
    ELSE [ret |-> 1, x |-> Div(Neg(cc), cb)]

solve_linear(cb, cc, x) ==
    IF Lt(fabs(cb), DBL_EPSILON)
    THEN IF Lt(fabs(cc), DBL_EPSILON)
         THEN [ret |-> INFINITE_ROOTS, x |-> x]
         ELSE [ret |-> 0, x |-> x]
    ELSE [ret |-> 1, x |-> Div(Neg(cc), cb)]

Discriminant(ca, cb, cc) == Sub(Mul(cb, cb), Mul(Mul(Num(4), ca), cc))

\* solve_square storing the single root in both output locations
solve_square_writes_both(ca, cb, cc, p1, p2) ==
    IF Lt(fabs(ca), DBL_EPSILON)
    THEN LET l == solve_linear(cb, cc, p1)
         IN  [ret |-> l.ret, x1 |-> l.x, x2 |-> p2]
    ELSE LET d == Discriminant(ca, cb, cc)
         IN  IF Lt(d, Num(0)) /\ Gt(fabs(d), DBL_EPSILON)
             THEN [ret |-> 0, x1 |-> p1, x2 |-> p2]
             ELSE IF Lt(fabs(d), DBL_EPSILON)
             THEN [ret |-> 1, x1 |-> Div(Neg(cb), Mul(Num(2), ca)),
                              x2 |-> Div(Neg(cb), Mul(Num(2), ca))]
             ELSE LET r == sqrt(d)
                  IN  [ret |-> 2,
                       x1 |-> Div(Sub(Neg(cb), r), Mul(Num(2), ca)),
                       x2 |-> Div(Add(Neg(cb), r), Mul(Num(2), ca))]

solve_square(ca, cb, cc, p1, p2) ==
    IF Lt(fabs(ca), DBL_EPSILON)
    THEN LET l == solve_linear(cb, cc, p1)
         IN  [ret |-> l.ret, x1 |-> l.x, x2 |-> p2]
    ELSE LET d == Discriminant(ca, cb, cc)
         IN  IF Lt(d, Num(0)) /\ Gt(fabs(d), DBL_EPSILON)
             THEN [ret |-> 0, x1 |-> p1, x2 |-> p2]
             ELSE IF Lt(fabs(d), DBL_EPSILON)
             THEN [ret |-> 1, x1 |-> Div(Neg(cb), Mul(Num(2), ca)), x2 |-> p2]
             ELSE LET r == sqrt(d)
                  IN  [ret |-> 2,
                       x1 |-> Div(Sub(Neg(cb), r), Mul(Num(2), ca)),
                       x2 |-> Div(Add(Neg(cb), r), Mul(Num(2), ca))]

----------------------------------------------------------------------------
(* Values the user can type and the harness can pass: zero, and magnitudes  *)
(* below, on and above DBL_EPSILON, of both signs                           *)

Magnitudes ==
    { Div(DBL_EPSILON, Num(4)), Div(DBL_EPSILON, Num(2)), DBL_EPSILON, Num(1) }

Coeffs == {Num(0)} \cup Magnitudes \cup {Neg(m) : m \in Magnitudes}

\* Lengths of an unparsable token: one character, the longest that fits in
\* trash with its terminating NUL, and the shortest that does not.
TokenLens == {1, TRASH_SIZE - 1, TRASH_SIZE}

Names == <<"A", "B", "C">>

NextName(n) == IF n = "A" THEN "B" ELSE "C"

----------------------------------------------------------------------------
(* main and input() *)

Init ==
    /\ pc = "input"
    /\ name = "A"
    /\ tries = 0
    /\ result = 0
    /\ prompts = 0
    /\ wrote = FALSE
    /\ said_last = FALSE
    /\ calls = <<>>
    /\ parsed = <<>>
    /\ asked = {}
    /\ a = Num(0)
    /\ b = Num(0)
    /\ c = Num(0)
    /\ x1 = Num(0)
    /\ x2 = Num(0)
    /\ roots_num = 0
    /\ out = ""
    /\ k = Num(1)
    /\ scaled = [ret |-> 0, x1 |-> Num(0), x2 |-> Num(0)]

\* while ((tries < ERR_INPUT_TRIES) && (result == 0))
InLoop == pc = "input" /\ tries < ERR_INPUT_TRIES /\ result = 0

\* printf of the prompt, common to every pass of the loop
Prompt ==
    /\ InLoop
    /\ prompts < MaxPrompts
    /\ prompts' = prompts + 1
    /\ asked' = asked \cup {name}

\* *value = v for the coefficient input() was called for
Store(v) ==
    /\ a' = IF name = "A" THEN v ELSE a
    /\ b' = IF name = "B" THEN v ELSE b
    /\ c' = IF name = "C" THEN v ELSE c

\* One pass of the loop on which scanf("%lg") parses a number.
ScanNumber ==
    \E v \in Coeffs :
        /\ Prompt
        /\ result' = 1
        /\ Store(v)
        /\ wrote' = TRUE
        /\ parsed' = Append(parsed, name)
        /\ UNCHANGED <<pc, name, tries, said_last, calls, x1, x2, roots_num,
                       out, k, scaled>>

\* One pass of the loop on which stdin is at its end: scanf returns EOF and
\* stores nothing.
ScanEof ==
    /\ Prompt
    /\ result' = EOF
    /\ UNCHANGED <<pc, name, tries, wrote, said_last, calls, parsed, a, b, c,
                   x1, x2, roots_num, out, k, scaled>>

\* One pass of the loop on an unparsable token that fits in clear_stdin's
\* trash: scanf returns 0, the try is counted, the token is read away.
ScanBad ==
    \E len \in TokenLens :
        /\ len + 1 <= TRASH_SIZE
        /\ Prompt
        /\ result' = 0
        /\ tries' = tries + 1
        /\ said_last' = ~(tries + 1 < ERR_INPUT_TRIES)
        /\ UNCHANGED <<pc, name, wrote, calls, parsed, a, b, c, x1, x2,
                       roots_num, out, k, scaled>>

\* One pass of the loop on an unparsable token that does not fit: scanf("%s")
\* in clear_stdin writes past the end of trash.  The behaviour is undefined:
\* the process is killed (stack protector, bad return address), or the write
\* reaches input()'s frame and leaves any values in tries and result.
ScanOverflow ==
    \E len \in TokenLens :
        /\ len + 1 > TRASH_SIZE
        /\ Prompt
        /\ \/ /\ pc' = "aborted"
              /\ UNCHANGED <<tries, result, said_last>>
           \/ /\ pc' = pc
              /\ tries' \in 0..ERR_INPUT_TRIES
              /\ result' \in {EOF, 0, 1}
              /\ said_last' \in BOOLEAN
        /\ UNCHANGED <<name, wrote, calls, parsed, a, b, c, x1, x2, roots_num,
                       out, k, scaled>>

\* return result; and main's if (!input(...)) return 0; followed by the next
\* call of input() or by the solve.
InputReturn ==
    /\ pc = "input"
    /\ ~InLoop
    /\ calls' = Append(calls, [name |-> name, ret |-> result, wrote |-> wrote])
    /\ IF result = 0 THEN pc' = "done"
       ELSE IF name = "C" THEN pc' = "solve"
       ELSE pc' = "input"
    /\ name' = IF result # 0 /\ name # "C" THEN NextName(name) ELSE name
    /\ tries' = 0
    /\ result' = 0
    /\ prompts' = 0
    /\ wrote' = FALSE
    /\ said_last' = FALSE
    /\ UNCHANGED <<parsed, asked, a, b, c, x1, x2, roots_num, out, k, scaled>>

\* double x1 = 0, x2 = 0; int roots_num = solve_square(a, b, c, &x1, &x2);
Solve ==
    /\ pc = "solve"
    /\ LET r == solve_square(a, b, c, Num(0), Num(0))
       IN  /\ roots_num' = r.ret
           /\ x1' = r.x1
           /\ x2' = r.x2
    /\ pc' = "print"
    /\ UNCHANGED <<name, tries, result, prompts, wrote, said_last, calls,
                   parsed, asked, a, b, c, out, k, scaled>>

Message(n) ==
    IF n = INFINITE_ROOTS THEN "infinite number of roots"
    ELSE IF n = 0 THEN "no roots"
    ELSE IF n = 1 THEN "one root"
    ELSE IF n = 2 THEN "two roots"
    ELSE "something strange"

\* the if / else if chain on roots_num, and return 0
PrintResult ==
    /\ pc = "print"
    /\ out' = Message(roots_num)
    /\ pc' = "done"
    /\ UNCHANGED <<name, tries, result, prompts, wrote, said_last, calls,
                   parsed, asked, a, b, c, x1, x2, roots_num, k, scaled>>

Next ==
    \/ ScanNumber
    \/ ScanEof
    \/ ScanBad
    \/ ScanOverflow
    \/ InputReturn
    \/ Solve
    \/ PrintResult

Spec == Init /\ [][Next]_vars

----------------------------------------------------------------------------
(* solve_square as a function: any coefficients, any previous contents of   *)
(* the output locations, and the same call on the coefficients scaled by k  *)

PreVals == {Num(0), Num(7)}

Scales == {Num(2), Num(-1), Div(Num(1), Num(2))}

FnInit ==
    /\ pc = "fn_call"
    /\ name = "A"
    /\ tries = 0
    /\ result = 0
    /\ prompts = 0
    /\ wrote = FALSE
    /\ said_last = FALSE
    /\ calls = <<>>
    /\ parsed = <<>>
    /\ asked = {}
    /\ a \in Coeffs
    /\ b \in Coeffs
    /\ c \in Coeffs
    /\ x1 \in PreVals
    /\ x2 \in PreVals
    /\ roots_num = 0
    /\ out = ""
    /\ k \in Scales
    /\ scaled = [ret |-> 0, x1 |-> Num(0), x2 |-> Num(0)]

Apply ==
    /\ pc = "fn_call"
    /\ LET r == solve_square(a, b, c, x1, x2)
       IN  /\ roots_num' = r.ret
           /\ x1' = r.x1
           /\ x2' = r.x2
    /\ scaled' = solve_square(Mul(k, a), Mul(k, b), Mul(k, c), x1, x2)
    /\ pc' = "fn_done"
    /\ UNCHANGED <<name, tries, result, prompts, wrote, said_last, calls,
                   parsed, asked, a, b, c, out, k>>

FnNext == Apply

SolveSpec == FnInit /\ [][FnNext]_vars

----------------------------------------------------------------------------
(* Vocabulary of the properties *)

\* "approximately zero" as the code tests it: fabs(x) < DBL_EPSILON
ApproxZero(x) == Lt(fabs(x), DBL_EPSILON)

Close(x, y) == ApproxZero(Sub(x, y))

\* a*r*r + b*r + c
Residual(ca, cb, cc, r) == Add(Add(Mul(Mul(ca, r), r), Mul(cb, r)), cc)

FnDone == pc = "fn_done"

RootCounts == {INFINITE_ROOTS, 0, 1, 2}

ResultMessages ==
    {"infinite number of roots", "no roots", "one root", "two roots"}

----------------------------------------------------------------------------
(* Properties of solve_square, checked under SolveSpec *)

\* C1: whenever solve_square returns 2, the value written to x1 is less than
\* or equal to the value written to x2, for every sign of a.
C1_SmallerRootFirst == (FnDone /\ roots_num = 2) => Le(x1, x2)

\* C2: with |a| >= DBL_EPSILON and d = b*b - 4*a*c, solve_square returns 0
\* when d < 0 and |d| > epsilon, returns 1 with x1 = -b/(2*a) when
\* |d| < epsilon, returns 2 in every other case, and returns 2 only when d is
\* strictly positive, so that sqrt is never taken of a negative d.
C2_ClassifiedByDiscriminant ==
    (FnDone /\ ~Lt(fabs(a), DBL_EPSILON)) =>
        LET d == Discriminant(a, b, c)
            none == Lt(d, Num(0)) /\ Gt(fabs(d), DBL_EPSILON)
            one == Lt(fabs(d), DBL_EPSILON)
        IN  /\ none => roots_num = 0
            /\ one => (roots_num = 1 /\ x1 = Div(Neg(b), Mul(Num(2), a)))
            /\ (~none /\ ~one) => roots_num = 2
            /\ roots_num = 2 => Gt(d, Num(0))

\* C3: with |a| < DBL_EPSILON solve_square returns INFINITE_ROOTS when
\* |b| < epsilon and |c| < epsilon, 0 when |b| < epsilon and |c| >= epsilon,
\* and 1 with x1 = -c/b when |b| >= epsilon.
C3_LinearFallback ==
    (FnDone /\ Lt(fabs(a), DBL_EPSILON)) =>
        /\ (Lt(fabs(b), DBL_EPSILON) /\ Lt(fabs(c), DBL_EPSILON))
               => roots_num = INFINITE_ROOTS
        /\ (Lt(fabs(b), DBL_EPSILON) /\ ~Lt(fabs(c), DBL_EPSILON))
               => roots_num = 0
        /\ ~Lt(fabs(b), DBL_EPSILON)
               => (roots_num = 1 /\ x1 = Div(Neg(c), b))

\* C3 witness: a nonzero a below epsilon was solved as the linear equation
\* with a nonzero root.
C3_Witness ==
    /\ FnDone
    /\ a # Num(0)
    /\ Lt(fabs(a), DBL_EPSILON)
    /\ roots_num = 1
    /\ c # Num(0)
    /\ x1 = Div(Neg(c), b)

\* C4: every real value solve_square reports as a root satisfies
\* a*r*r + b*r + c ~ 0: x1 when it returns 1, x1 and x2 when it returns 2.
IsRoot(r) == IsNaN(r) \/ ApproxZero(Residual(a, b, c, r))

C4_RootsSatisfyEquation ==
    FnDone =>
        /\ roots_num = 1 => IsRoot(x1)
        /\ roots_num = 2 => (IsRoot(x1) /\ IsRoot(x2))

\* C5: solve_square(a, b, c) and solve_square(k*a, k*b, k*c) return the same
\* root count and the same root values within tolerance, for every nonzero k.
C5_ScaleInvariance ==
    FnDone =>
        /\ scaled.ret = roots_num
        /\ roots_num = 1 => Close(scaled.x1, x1)
        /\ roots_num = 2 => \/ Close(scaled.x1, x1) /\ Close(scaled.x2, x2)
                            \/ Close(scaled.x1, x2) /\ Close(scaled.x2, x1)

\* C10: solve_square leaves *x1 and *x2 as they were when it returns 0 or
\* INFINITE_ROOTS, leaves *x2 as it was when it returns 1, and never changes
\* the coefficients.
C10_Frame ==
    [][(pc = "fn_call" /\ pc' = "fn_done") =>
          /\ a' = a /\ b' = b /\ c' = c
          /\ roots_num' \in {0, INFINITE_ROOTS} => (x1' = x1 /\ x2' = x2)
          /\ roots_num' = 1 => x2' = x2]_vars

\* C10 witness: a call returned 1, wrote a root to x1 and left the previous
\* content of x2 in place.
C10_Witness ==
    /\ FnDone
    /\ roots_num = 1
    /\ x1 \notin PreVals
    /\ x2 = Num(7)

----------------------------------------------------------------------------
(* Properties of main and input(), checked under Spec *)

\* C6: solve_square returns one of INFINITE_ROOTS, 0, 1, 2; main never takes
\* the "Something strange happened" branch and prints exactly one of the four
\* result messages after a solve.
C6_Total ==
    /\ pc = "print" => roots_num \in RootCounts
    /\ out # "something strange"
    /\ (pc = "done" /\ Len(calls) = 3 /\ calls[3].ret # 0) => out \in ResultMessages

\* C6 witness: main solved typed coefficients and printed a result message.
C6_Witness ==
    /\ pc = "done"
    /\ parsed = Names
    /\ out = "infinite number of roots"

\* C7: input() returns 1 if it stored a parsed number in *value and 0
\* otherwise, and never any other value.
C7_InputReturnsFlag ==
    \A i \in 1..Len(calls) :
        /\ calls[i].ret \in {0, 1}
        /\ calls[i].ret = 1 <=> calls[i].wrote

\* C8: main calls solve_square only after A, B and C, in that order, were each
\* stored from a parsed number; a call of input() that stored no parsed number
\* is main's last step: no further prompt, no solve, no result message.
C8_SolveOnlyAfterThreeParsed ==
    /\ pc \in {"solve", "print"} => parsed = Names
    /\ out # "" => parsed = Names
    /\ \A i \in 1..Len(calls) :
           ~calls[i].wrote =>
               /\ i = Len(calls)
               /\ pc = "done"
               /\ out = ""
               /\ asked = {Names[j] : j \in 1..i}

\* C9: input() issues at most ERR_INPUT_TRIES prompts and counts at most
\* ERR_INPUT_TRIES incorrect inputs, it always comes to its return, and it
\* returns 0 and has printed "That was last try" exactly when
\* ERR_INPUT_TRIES incorrect inputs were counted.
C9_BoundedTries ==
    /\ pc # "aborted"
    /\ prompts <= ERR_INPUT_TRIES
    /\ tries <= prompts
    /\ said_last <=> tries = ERR_INPUT_TRIES
    /\ (pc = "input" /\ ~InLoop) => (result = 0 <=> tries = ERR_INPUT_TRIES)

====
